---- MODULE Spec2Model ----
(***************************************************************************)
(* Model of TypeGenerator (src/src/index.ts): the declaration generator    *)
(* for libsodium.js.                                                       *)
(*                                                                         *)
(* Text is modelled structurally.                                          *)
(*  - A symbol or constant name is the sequence of its UTF-16 code units,  *)
(*    so that `<` on names and toLowerCase are computed, not assumed.      *)
(*  - A type token and a return expression are sequences of lexical        *)
(*    fragments (strings).  The fragments used start with pairwise         *)
(*    distinct characters or contain the tested substring in exactly one   *)
(*    fragment, so startsWith / includes on the concatenated text coincide *)
(*    with the prefix / sub-sequence tests on fragments below.             *)
(*  - A path is the sequence of its segments; '' and undefined are <<>>.   *)
(***************************************************************************)
EXTENDS Integers, Sequences, FiniteSets, TLC

VARIABLES
  libsodiumVersion,      \* this.libsodiumVersion
  sourceIsSet,           \* this.sourceIsSet
  tmpDir,                \* this.tmpDir
  libsodiumLocalSource,  \* this.libsodiumLocalSource
  outputFileOrDir,       \* this.outputFileOrDir
  ctor,                  \* the constructor's arguments (never changes)
  fsDirs,                \* file system: the directories that exist
  fsFiles,               \* file system: path -> content of the files that exist
  nextTmp,               \* number of scratch directories created so far, plus one
  constantsJson,         \* upstream wrapper/constants.json (a list)
  symbolFiles,           \* upstream wrapper/symbols/* (a list, readdir order)
  call,                  \* the last call on the generator and its outcome
  out,                   \* the last document built for each variant
  type,                  \* convertReturnType: its argument
  returnType             \* convertReturnType: its result

vars == <<libsodiumVersion, sourceIsSet, tmpDir, libsodiumLocalSource,
          outputFileOrDir, ctor, fsDirs, fsFiles, nextTmp, constantsJson,
          symbolFiles, call, out, type, returnType>>

genVars == <<libsodiumVersion, sourceIsSet, tmpDir, libsodiumLocalSource,
             outputFileOrDir, ctor, fsDirs, fsFiles, nextTmp>>

None == <<>>

-----------------------------------------------------------------------------
(* Bounds *)

MaxExprLen == 3
MaxConstants == 2
MaxSymbols == 2
MaxPatch == 4
MaxTmp == 2

-----------------------------------------------------------------------------
(* String primitives *)

Lower(c) == IF c >= 65 /\ c <= 90 THEN c + 32 ELSE c

toLowerCase(s) == [i \in 1..Len(s) |-> Lower(s[i])]

\* a < b on strings: code-unit-wise, a proper prefix is smaller
StrLess(a, b) ==
  \E i \in 1..Len(b) :
     /\ \A j \in 1..(i - 1) : j <= Len(a) /\ a[j] = b[j]
     /\ \/ i = Len(a) + 1
        \/ i <= Len(a) /\ a[i] < b[i]

startsWith(s, prefix) ==
  /\ Len(prefix) <= Len(s)
  /\ SubSeq(s, 1, Len(prefix)) = prefix

\* s.includes(f) for a text f that lies within one fragment
includes(s, f) == \E i \in 1..Len(s) : s[i] = f

\* (a, b) => (a.name < b.name ? -1 : a.name > b.name ? 1 : 0)
compareName(a, b) ==
  IF StrLess(a.name, b.name) THEN -1
  ELSE IF StrLess(b.name, a.name) THEN 1 ELSE 0

\* insertion of x behind every element that does not compare greater
SortInsert(sorted, x) ==
  LET k == Cardinality({i \in 1..Len(sorted) : compareName(sorted[i], x) <= 0})
  IN  SubSeq(sorted, 1, k) \o <<x>> \o SubSeq(sorted, k + 1, Len(sorted))

RECURSIVE sort(_)
\* Array.prototype.sort with compareName (stable, as V8 is for these lengths)
sort(s) ==
  IF s = <<>> THEN <<>>
  ELSE SortInsert(sort(SubSeq(s, 1, Len(s) - 1)), s[Len(s)])

-----------------------------------------------------------------------------
(* convertType, convertReturnType *)

convertType(t) ==
  IF t = <<"uint">> THEN <<"number">>
  ELSE IF t = <<"buf">> \/ t = <<"randombytes_implementation">>
       THEN <<"Uint8Array">>
  ELSE IF t = <<"unsized_buf">> \/ t = <<"unsized_buf", "_optional">>
       THEN <<"string | Uint8Array | undefined">>
  ELSE t

\* string | FormattableReturnType, tagged with what typeof yields
Single(t) == [typeof |-> "string", value |-> t]

Paired(b, s) == [typeof |-> "object", binaryType |-> b, stringType |-> s]

KeyPairMarker == <<"{publicKey: ", "_format_output">>
CryptoBoxMarker == <<"_format_output", "({ciphertext: ciphertext, mac: mac}">>
SecretBoxMarker == <<"_format_output", "({mac: mac, cipher: cipher}">>
CryptoKXMarker ==
  <<"_format_output", "({sharedRx: sharedRx, sharedTx: sharedTx}">>

\* the variant with the generic rule tested before the specific prefixes
convertReturnType_genericFirst(t) ==
  IF includes(t, "_format_output") THEN Paired(<<"Uint8Array">>, <<"string">>)
  ELSE IF startsWith(t, KeyPairMarker)
       THEN Paired(<<"KeyPair">>, <<"StringKeyPair">>)
  ELSE IF t = <<"random_value">> THEN Single(<<"number">>)
  ELSE IF includes(t, "=== 0") THEN Single(<<"boolean">>)
  ELSE IF includes(t, "stringify") THEN Single(<<"string">>)
  ELSE Single(t)

convertReturnType(t) ==
  IF startsWith(t, KeyPairMarker)
    THEN Paired(<<"KeyPair">>, <<"StringKeyPair">>)
  ELSE IF startsWith(t, CryptoBoxMarker)
    THEN Paired(<<"CryptoBox">>, <<"StringCryptoBox">>)
  ELSE IF startsWith(t, SecretBoxMarker)
    THEN Paired(<<"SecretBox">>, <<"StringSecretBox">>)
  ELSE IF startsWith(t, CryptoKXMarker)
    THEN Paired(<<"CryptoKX">>, <<"StringCryptoKX">>)
  ELSE IF t = <<"random_value">> THEN Single(<<"number">>)
  ELSE IF includes(t, "=== 0") THEN Single(<<"boolean">>)
  ELSE IF includes(t, "stringify") THEN Single(<<"string">>)
  ELSE IF includes(t, "_format_output")
    THEN Paired(<<"Uint8Array">>, <<"string">>)
  ELSE Single(t)

-----------------------------------------------------------------------------
(* Fixed data of the generator *)

\* names, as code units
Name_A == <<65>>
Name_a == <<97>>
Name_aB == <<97, 66>>
Name_ab == <<97, 98>>
Name_f == <<102>>
Name_memcmp == <<109, 101, 109, 99, 109, 112>>
Name_ready == <<114, 101, 97, 100, 121>>
Name_s == <<115>>

\* ./sumoOnlySymbols: lower-cased names of the extended variant only
sumoOnlySymbols == {Name_a, Name_ab}

\* ./libsodiumTypes
additionalSymbols ==
  << [name |-> Name_memcmp,
      inputs |-> << [name |-> "b1", type |-> <<"Uint8Array">>],
                    [name |-> "b2", type |-> <<"Uint8Array">>] >>,
      return |-> <<"boolean">>] >>

types ==
  << [name |-> "Uint8ArrayOutputFormat", values |-> <<"'uint8array'">>],
     [name |-> "StringOutputFormat",
      values |-> <<"'text'", "'hex'", "'base64'">>] >>

enums ==
  << [name |-> "base64_variants",
      values |-> <<"ORIGINAL", "ORIGINAL_NO_PADDING", "URLSAFE">>] >>

genericTypes ==
  << [name |-> "KeyPair",
      fields |-> << [name |-> "keyType", type |-> "KeyType"],
                    [name |-> "privateKey", type |-> "Uint8Array"],
                    [name |-> "publicKey", type |-> "Uint8Array"] >>] >>

-----------------------------------------------------------------------------
(* getFunctions, getConstants, buildData *)

\* a non-empty string is truthy
truthy(s) == s # <<>>

getFunctions == sort(symbolFiles \o additionalSymbols)

ReadyConstant == [name |-> Name_ready, type |-> <<"Promise<void>">>]

\* the variant that never adds the synthetic constant
getConstants_noReady == sort(constantsJson)

getConstants ==
  sort(IF truthy(libsodiumVersion)
         THEN Append(constantsJson, ReadyConstant)
         ELSE constantsJson)

\* param.type.includes('optional')
optional(t) == includes(t, "_optional")

getParameters(parameterArr, formattingAvailable) ==
  [index \in 1..Len(parameterArr) |->
     LET param == parameterArr[index]
         isLast == index = Len(parameterArr)
     IN  [name |-> param.name,
          type |-> convertType(param.type) \o
                   (IF optional(param.type) THEN <<" | null">> ELSE <<>>),
          sep |-> IF isLast /\ ~formattingAvailable THEN "" ELSE ", "]]

\* the variant that compares names without lower-casing them
isSumoOnly_caseSensitive(name) == name \in sumoOnlySymbols

\* sumoOnlySymbols.includes(x.name.toLowerCase())
isSumoOnly(name) == toLowerCase(name) \in sumoOnlySymbols

NotSumoOnly(x) == ~isSumoOnly(x.name)

filterVariant(entries, sumo) ==
  IF ~sumo THEN SelectSeq(entries, NotSumoOnly) ELSE entries

constantLine(constant) ==
  [name |-> constant.name, type |-> convertType(constant.type)]

BinarySelector == <<"outputFormat", "?", ": ", "Uint8ArrayOutputFormat", " | null">>
StringSelector == <<"outputFormat", ": ", "StringOutputFormat", " | null">>

Signature(name, inputs, selector, returns) ==
  [name |-> name, inputs |-> inputs, selector |-> selector, returns |-> returns]

\* the lines emitted for one function symbol (one or two signatures)
functionLines(fn) ==
  LET ret == IF fn.return = None THEN <<"void">> ELSE fn.return
      formattingAvailable == includes(ret, "_format_output")
      inputs == IF fn.inputs # None
                  THEN getParameters(fn.inputs, formattingAvailable)
                  ELSE <<>>
      rt == convertReturnType(ret)
  IN  IF rt.typeof = "object"
        THEN << Signature(fn.name, inputs, BinarySelector, rt.binaryType),
                Signature(fn.name, inputs, StringSelector, rt.stringType) >>
        ELSE << Signature(fn.name, inputs, <<>>, rt.value) >>

RECURSIVE flatMap(_)
flatMap(fns) ==
  IF fns = <<>> THEN <<>>
  ELSE functionLines(Head(fns)) \o flatMap(Tail(fns))

buildData(sumo) ==
  [module |-> IF sumo THEN "libsodium-wrappers-sumo" ELSE "libsodium-wrappers",
   version |-> libsodiumVersion,
   types |-> types,
   enums |-> enums,
   genericTypes |-> genericTypes,
   constants |->
     LET constants == filterVariant(getConstants, sumo)
     IN  [i \in 1..Len(constants) |-> constantLine(constants[i])],
   functions |-> flatMap(filterVariant(getFunctions, sumo))]

-----------------------------------------------------------------------------
(* Versions.  A version string is the sequence of its dot-separated parts;  *)
(* a part that is not a run of digits is -1, the empty string is <<>>.      *)

InitialVersion == <<0, 7, 3>>

Versions ==
  {<<0, b, c>> : b \in {6, 7}, c \in {-1} \cup (2..MaxPatch)}
    \cup {<<>>}

NonNumeric(v) == v = <<>> \/ \E i \in 1..Len(v) : v[i] < 0

\* utils.compareVersionNumbers: NaN for a non-numeric operand, else the
\* sign of the part-wise numeric comparison
compareVersionNumbers(v1, v2) ==
  IF NonNumeric(v1) \/ NonNumeric(v2) THEN [isNaN |-> TRUE, value |-> 0]
  ELSE LET n == IF Len(v1) < Len(v2) THEN Len(v1) ELSE Len(v2)
           diff == {i \in 1..n : v1[i] # v2[i]}
       IN  IF diff = {}
             THEN [isNaN |-> FALSE,
                   value |-> IF Len(v1) > Len(v2) THEN 1
                             ELSE IF Len(v1) < Len(v2) THEN -1 ELSE 0]
             ELSE LET i == CHOOSE k \in diff : \A m \in diff : k <= m
                  IN  [isNaN |-> FALSE,
                       value |-> IF v1[i] > v2[i] THEN 1 ELSE -1]

RECURSIVE VersionString(_)
VersionString(v) ==
  IF Len(v) = 1 THEN ToString(v[1])
  ELSE ToString(v[1]) \o "." \o VersionString(Tail(v))

NoCall ==
  [op |-> "none", arg |-> <<>>, sumo |-> FALSE, result |-> "ok",
   ret |-> <<>>, wrote |-> <<>>, source |-> <<>>, created |-> <<>>,
   downloaded |-> FALSE, stale |-> FALSE]

setDownloadVersion(version) ==
  LET comparison == compareVersionNumbers(version, libsodiumVersion)
      thrown == comparison.isNaN \/ comparison.value < 0
  IN  /\ libsodiumVersion' = IF thrown THEN libsodiumVersion ELSE version
      /\ call' = [NoCall EXCEPT !.op = "setDownloadVersion", !.arg = version,
                                !.result = IF thrown THEN "error" ELSE "ok"]

-----------------------------------------------------------------------------
(* File system and generate *)

OutDir == <<"out">>
OutFile == <<"out", "custom.d.ts">>
LocalSource == <<"local">>

\* utils.createTmp: a fresh directory
Tmp(n) == <<"tmp" \o ToString(n)>>

\* path.join(this.tmpDir, `libsodium.js-${this.libsodiumVersion}`)
proposedSymbolSource(tmp) ==
  Append(tmp, "libsodium.js-" \o VersionString(libsodiumVersion))

ZipData == [module |-> "libsodium.zip"]
OldData == [module |-> "an earlier file"]

\* `libsodium-wrappers${sumo ? '-sumo' : ''}.d.ts`
fileName(sumo) ==
  IF sumo THEN "libsodium-wrappers-sumo.d.ts" ELSE "libsodium-wrappers.d.ts"

writeFile(files, p, data) ==
  [q \in DOMAIN files \cup {p} |-> IF q = p THEN data ELSE files[q]]

\* rimraf(p): p and everything below it
rimraf(st, p) ==
  [st EXCEPT
     !.dirs = {d \in st.dirs : ~startsWith(d, p)},
     !.files = [q \in {q \in DOMAIN st.files : ~startsWith(q, p)} |->
                  st.files[q]]]

\* what the environment does to one generate call
Outcomes ==
  {"ok", "createTmp fails", "fetch fails", "buildData fails", "writeFile fails"}

Start ==
  [sourceIsSet |-> sourceIsSet, tmpDir |-> tmpDir,
   src |-> libsodiumLocalSource, out |-> outputFileOrDir,
   dirs |-> fsDirs, files |-> fsFiles, nextTmp |-> nextTmp,
   thrown |-> FALSE, downloaded |-> FALSE,
   created |-> <<>>, wrote |-> <<>>]

downloadLibrary(st, env) ==
  IF env = "createTmp fails" THEN [st EXCEPT !.thrown = TRUE]
  ELSE LET t == Tmp(st.nextTmp)
           st1 == [st EXCEPT !.tmpDir = t, !.dirs = @ \cup {t},
                             !.nextTmp = @ + 1, !.created = t]
       IN  IF env = "fetch fails" THEN [st1 EXCEPT !.thrown = TRUE]
           ELSE [st1 EXCEPT
                   !.files = writeFile(@, Append(t, "libsodium.zip"), ZipData),
                   !.dirs = @ \cup {proposedSymbolSource(t)},
                   !.src = proposedSymbolSource(t),
                   !.downloaded = TRUE]

\* generate, lines 326-330
acquire(env) ==
  IF truthy(libsodiumLocalSource)
    THEN [Start EXCEPT !.sourceIsSet = TRUE]
    ELSE downloadLibrary(Start, env)

\* utils.checkSource: the catalog tree must be there
checkSource(st) ==
  IF st.thrown \/ st.src \in st.dirs THEN st ELSE [st EXCEPT !.thrown = TRUE]

\* generate, lines 334-345
produce(st, sumo, env) ==
  IF st.thrown THEN st
  ELSE IF env = "buildData fails" THEN [st EXCEPT !.thrown = TRUE]
  ELSE IF st.out \notin st.dirs /\ st.out \notin DOMAIN st.files
    THEN [st EXCEPT !.thrown = TRUE]
  ELSE LET o == IF st.out \in st.dirs
                  THEN Append(st.out, fileName(sumo)) ELSE st.out
           st1 == [st EXCEPT !.out = o]
       IN  IF env = "writeFile fails" THEN [st1 EXCEPT !.thrown = TRUE]
           ELSE [st1 EXCEPT !.files = writeFile(@, o, buildData(sumo)),
                            !.wrote = o]

\* generate, lines 347-354
cleanup(st) ==
  IF st.thrown THEN st
  ELSE LET st1 == IF ~st.sourceIsSet THEN rimraf(st, st.src) ELSE st
       IN  IF truthy(st1.tmpDir)
             THEN [rimraf(st1, st1.tmpDir) EXCEPT !.tmpDir = <<>>]
             ELSE st1

generate(sumo) ==
  \E env \in Outcomes :
    /\ truthy(libsodiumLocalSource) \/ nextTmp <= MaxTmp
    /\ LET st == cleanup(produce(checkSource(acquire(env)), sumo, env))
       IN  /\ sourceIsSet' = st.sourceIsSet
           /\ tmpDir' = st.tmpDir
           /\ libsodiumLocalSource' = st.src
           /\ outputFileOrDir' = st.out
           /\ fsDirs' = st.dirs
           /\ fsFiles' = st.files
           /\ nextTmp' = st.nextTmp
           /\ call' = [NoCall EXCEPT
                         !.op = "generate", !.sumo = sumo,
                         !.result = IF st.thrown THEN "error" ELSE "ok",
                         !.ret = IF st.thrown THEN <<>> ELSE st.out,
                         !.wrote = st.wrote,
                         !.source = acquire(env).src,
                         !.created = st.created,
                         !.downloaded = st.downloaded,
                         !.stale = /\ truthy(libsodiumLocalSource)
                                   /\ libsodiumLocalSource \notin fsDirs]
    /\ UNCHANGED <<libsodiumVersion, ctor, constantsJson, symbolFiles,
                   out, type, returnType>>

-----------------------------------------------------------------------------
(* The generator: any sequence of calls on one instance *)

SeqUpTo(S, n) == UNION {[1..k -> S] : k \in 0..n}

NoData == [built |-> FALSE, data |-> [module |-> ""]]

NoOut == [standard |-> NoData, sumo |-> NoData]

Init ==
  /\ ctor \in [outputFileOrDir : {OutDir, OutFile},
                libsodiumLocalSource : {None, LocalSource}]
  /\ libsodiumVersion = InitialVersion
  /\ sourceIsSet = FALSE
  /\ tmpDir = <<>>
  /\ libsodiumLocalSource = ctor.libsodiumLocalSource
  /\ outputFileOrDir = ctor.outputFileOrDir
  /\ fsDirs = {OutDir, LocalSource}
  /\ fsFiles \in {[p \in {} |-> OldData], [p \in {OutFile} |-> OldData]}
  /\ nextTmp = 1
  /\ constantsJson = << [name |-> Name_s, type |-> <<"uint">>],
                        [name |-> Name_A, type |-> <<"buf">>] >>
  /\ symbolFiles = << [name |-> Name_f, inputs |-> <<>>, return |-> <<>>] >>
  /\ call = NoCall
  /\ out = NoOut
  /\ type = <<>>
  /\ returnType = Single(<<>>)

SetDownloadVersion ==
  /\ \E version \in Versions : setDownloadVersion(version)
  /\ UNCHANGED <<sourceIsSet, tmpDir, libsodiumLocalSource, outputFileOrDir,
                 ctor, fsDirs, fsFiles, nextTmp, constantsJson, symbolFiles,
                 out, type, returnType>>

GenerateStandard == generate(FALSE)

GenerateSumo == generate(TRUE)

Next == SetDownloadVersion \/ GenerateStandard \/ GenerateSumo

Spec == Init /\ [][Next]_vars

-----------------------------------------------------------------------------
(* buildData as a function of the catalog, the version and the variant *)

ConstantPool ==
  { [name |-> Name_A, type |-> <<"uint">>],
    [name |-> Name_aB, type |-> <<"unsized_buf", "_optional">>],
    [name |-> Name_s, type |-> <<"string">>],
    [name |-> Name_ready, type |-> <<"number">>] }

SymbolPool ==
  { [name |-> Name_f, inputs |-> <<>>, return |-> <<>>],
    [name |-> Name_A,
     inputs |-> << [name |-> "seed", type |-> <<"unsized_buf", "_optional">>] >>,
     return |-> <<"{publicKey: ", "_format_output", "x">>],
    [name |-> Name_ab,
     inputs |-> << [name |-> "length", type |-> <<"uint">>] >>,
     return |-> <<"_format_output", "x">>],
    [name |-> Name_f,
     inputs |-> << [name |-> "key", type |-> <<"buf">>] >>,
     return |-> <<"_format_output", "x", "=== 0">>],
    [name |-> Name_memcmp, inputs |-> <<>>, return |-> <<"number">>],
    [name |-> Name_aB,
     inputs |-> << [name |-> "message", type |-> <<"unsized_buf">>],
                   [name |-> "key", type |-> <<"buf">>] >>,
     return |-> <<"_format_output", "({ciphertext: ciphertext, mac: mac}", "x">>] }

\* the versions setDownloadVersion can have left in libsodiumVersion
AcceptedVersions ==
  {v \in Versions :
     LET c == compareVersionNumbers(v, InitialVersion)
     IN  ~c.isNaN /\ c.value >= 0}

InitEmit ==
  /\ ctor = [outputFileOrDir |-> OutDir, libsodiumLocalSource |-> LocalSource]
  /\ libsodiumVersion \in AcceptedVersions
  /\ sourceIsSet = FALSE
  /\ tmpDir = <<>>
  /\ libsodiumLocalSource = LocalSource
  /\ outputFileOrDir = OutDir
  /\ fsDirs = {OutDir, LocalSource}
  /\ fsFiles = [p \in {} |-> OldData]
  /\ nextTmp = 1
  /\ constantsJson \in SeqUpTo(ConstantPool, MaxConstants)
  /\ symbolFiles \in SeqUpTo(SymbolPool, MaxSymbols)
  /\ call = NoCall
  /\ out = NoOut
  /\ type = <<>>
  /\ returnType = Single(<<>>)

BuildStandard ==
  /\ out' = [out EXCEPT !.standard = [built |-> TRUE, data |-> buildData(FALSE)]]
  /\ call' = [NoCall EXCEPT !.op = "buildData", !.sumo = FALSE]
  /\ UNCHANGED <<genVars, constantsJson, symbolFiles, type, returnType>>

BuildSumo ==
  /\ out' = [out EXCEPT !.sumo = [built |-> TRUE, data |-> buildData(TRUE)]]
  /\ call' = [NoCall EXCEPT !.op = "buildData", !.sumo = TRUE]
  /\ UNCHANGED <<genVars, constantsJson, symbolFiles, type, returnType>>

NextEmit == BuildStandard \/ BuildSumo

SpecEmit == InitEmit /\ [][NextEmit]_vars

-----------------------------------------------------------------------------
(* convertReturnType as a function of the return expression *)

Fragments ==
  { "{publicKey: ", "_format_output", "({ciphertext: ciphertext, mac: mac}",
    "({mac: mac, cipher: cipher}", "({sharedRx: sharedRx, sharedTx: sharedTx}",
    "random_value", "=== 0", "stringify", "x" }

ReturnExprs == SeqUpTo(Fragments, MaxExprLen)

InitRet ==
  /\ ctor = [outputFileOrDir |-> OutDir, libsodiumLocalSource |-> LocalSource]
  /\ libsodiumVersion = InitialVersion
  /\ sourceIsSet = FALSE
  /\ tmpDir = <<>>
  /\ libsodiumLocalSource = LocalSource
  /\ outputFileOrDir = OutDir
  /\ fsDirs = {OutDir, LocalSource}
  /\ fsFiles = [p \in {} |-> OldData]
  /\ nextTmp = 1
  /\ constantsJson = <<>>
  /\ symbolFiles = <<>>
  /\ call = NoCall
  /\ out = NoOut
  /\ type \in ReturnExprs
  /\ returnType = Single(<<>>)

ConvertReturnType ==
  /\ call.op = "none"
  /\ returnType' = convertReturnType(type)
  /\ call' = [NoCall EXCEPT !.op = "convertReturnType"]
  /\ UNCHANGED <<genVars, constantsJson, symbolFiles, out, type>>

NextRet == ConvertReturnType

SpecRet == InitRet /\ [][NextRet]_vars

-----------------------------------------------------------------------------
(* Properties *)

Variants == {"standard", "sumo"}

\* the documents built so far
Built == {out[v].data : v \in {w \in Variants : out[w].built}}

\* the first line of every function emitted (an overload pair is one function)
FunctionHeads(doc) ==
  SelectSeq(doc.functions, LAMBDA l : l.selector # StringSelector)

StrictlyAscending(lines) ==
  \A i \in 1..(Len(lines) - 1) : StrLess(lines[i].name, lines[i + 1].name)

Ascending(lines) ==
  \A i \in 1..(Len(lines) - 1) : ~StrLess(lines[i + 1].name, lines[i].name)

\* C1: in every document built, each constant name and each function name
\* occurs once, and both lists are in strictly ascending ordinal order.
C1_NamesUniqueAscending ==
  \A doc \in Built :
     /\ StrictlyAscending(doc.constants)
     /\ StrictlyAscending(FunctionHeads(doc))

Excluded(l) == toLowerCase(l.name) \in sumoOnlySymbols

Kept(l) == ~Excluded(l)

\* C2: the standard document's constants and functions are the extended
\* document's without the entries whose lower-cased name is excluded, in the
\* same order; the extended document has every catalog entry; the alias, enum
\* and record sections are the same.
C2_StandardIsExtendedMinusExcluded ==
  /\ out.standard.built /\ out.sumo.built =>
       LET std == out.standard.data
           ext == out.sumo.data
       IN  /\ std.constants = SelectSeq(ext.constants, Kept)
           /\ std.functions = SelectSeq(ext.functions, Kept)
           /\ std.types = ext.types
           /\ std.enums = ext.enums
           /\ std.genericTypes = ext.genericTypes
  /\ out.sumo.built =>
       LET ext == out.sumo.data
       IN  /\ Len(ext.constants) = Len(constantsJson) + 1
           /\ Len(FunctionHeads(ext)) = Len(symbolFiles) + Len(additionalSymbols)
           /\ \A i \in 1..Len(constantsJson) :
                 \E j \in 1..Len(ext.constants) :
                    ext.constants[j].name = constantsJson[i].name
           /\ \A i \in 1..Len(symbolFiles) :
                 \E j \in 1..Len(ext.functions) :
                    ext.functions[j].name = symbolFiles[i].name

C2_Witness ==
  /\ out.standard.built /\ out.sumo.built
  /\ \E i \in 1..Len(out.sumo.data.constants) :
        /\ out.sumo.data.constants[i].name = Name_A
        /\ Excluded(out.sumo.data.constants[i])
  /\ \E i \in 1..Len(out.sumo.data.functions) :
        Excluded(out.sumo.data.functions[i])
  /\ Len(out.standard.data.constants) > 1
  /\ Len(out.standard.data.functions) > 1

SpecificMarkers ==
  { [marker |-> KeyPairMarker,
     result |-> Paired(<<"KeyPair">>, <<"StringKeyPair">>)],
    [marker |-> CryptoBoxMarker,
     result |-> Paired(<<"CryptoBox">>, <<"StringCryptoBox">>)],
    [marker |-> SecretBoxMarker,
     result |-> Paired(<<"SecretBox">>, <<"StringSecretBox">>)],
    [marker |-> CryptoKXMarker,
     result |-> Paired(<<"CryptoKX">>, <<"StringCryptoKX">>)] }

\* C3: a return expression that starts with one of the four structured-output
\* markers and contains '_format_output' resolves to that marker's pair, never
\* to the generic {Uint8Array, string} pair.
C3_SpecificBeforeGeneric ==
  call.op = "convertReturnType" =>
    \A m \in SpecificMarkers :
       startsWith(type, m.marker) /\ includes(type, "_format_output") =>
         /\ returnType = m.result
         /\ returnType # Paired(<<"Uint8Array">>, <<"string">>)

C3_Witness ==
  /\ call.op = "convertReturnType"
  /\ startsWith(type, SecretBoxMarker)
  /\ includes(type, "=== 0")
  /\ returnType = Paired(<<"SecretBox">>, <<"StringSecretBox">>)

\* the catalog functions buildData(sumo = true) goes through
AllFunctions == symbolFiles \o additionalSymbols

ResolvesToPair(fn) ==
  convertReturnType(IF fn.return = None THEN <<"void">> ELSE fn.return).typeof
    = "object"

\* C4: a function that resolves to a paired type is emitted as two signatures
\* with the same name and inputs: the first with an optional, nullable binary
\* selector and the binary type, the second with a required, non-null string
\* selector and the string type.
C4_OverloadPair ==
  \A doc \in Built :
     /\ \A i \in 1..Len(doc.functions) :
          LET l == doc.functions[i]
          IN  includes(l.selector, "Uint8ArrayOutputFormat") =>
                /\ i < Len(doc.functions)
                /\ includes(l.selector, "?")
                /\ includes(l.selector, " | null")
                /\ LET n == doc.functions[i + 1]
                   IN  /\ n.name = l.name
                       /\ n.inputs = l.inputs
                       /\ includes(n.selector, "StringOutputFormat")
                       /\ ~includes(n.selector, "?")
                       /\ ~includes(n.selector, " | null")
     /\ doc = out.sumo.data =>
          Cardinality({i \in 1..Len(doc.functions) :
                         includes(doc.functions[i].selector,
                                  "Uint8ArrayOutputFormat")})
            = Cardinality({i \in 1..Len(AllFunctions) :
                             ResolvesToPair(AllFunctions[i])})

ReadyLine == [name |-> Name_ready, type |-> <<"Promise<void>">>]

\* C5: every document built, standard or extended, has the constant
\* ready: Promise<void>, and it stands at its alphabetical position.
C5_ReadyEmitted ==
  \A doc \in Built :
     \E i \in 1..Len(doc.constants) :
        /\ doc.constants[i] = ReadyLine
        /\ \A j \in 1..Len(doc.constants) :
              /\ j < i => ~StrLess(Name_ready, doc.constants[j].name)
              /\ j > i => ~StrLess(doc.constants[j].name, Name_ready)

C5_Witness ==
  /\ out.standard.built /\ out.sumo.built
  /\ libsodiumVersion # InitialVersion
  /\ Len(out.standard.data.constants) = 3
  /\ out.standard.data.constants[2] = ReadyLine
  /\ \E i \in 1..Len(constantsJson) : constantsJson[i].name = Name_ready

\* C6: setDownloadVersion(v) throws exactly when v is non-numeric or below
\* the initial version 0.7.3, whatever was accepted before.
C6_FixedFloor ==
  call.op = "setDownloadVersion" =>
    (call.result = "error" <=>
       \/ NonNumeric(call.arg)
       \/ compareVersionNumbers(call.arg, InitialVersion).value < 0)

\* C7: with a directory as output target, every successful generate writes
\* and returns libsodium-wrappers.d.ts (standard) or
\* libsodium-wrappers-sumo.d.ts (extended) inside that directory.
C7_PathPerVariant ==
  /\ ctor.outputFileOrDir = OutDir
  /\ call.op = "generate"
  /\ call.result = "ok"
  => /\ call.ret = Append(ctor.outputFileOrDir, fileName(call.sumo))
     /\ call.wrote = call.ret

\* C8: in every signature the parameters are separated by ', ' and the last
\* one is followed by a separator only if an output-format selector follows.
C8_NoDanglingSeparator ==
  \A doc \in Built :
     \A i \in 1..Len(doc.functions) :
        LET l == doc.functions[i]
        IN  \A k \in 1..Len(l.inputs) :
               IF k < Len(l.inputs) THEN l.inputs[k].sep = ", "
               ELSE (l.inputs[k].sep = ", " <=> l.selector # <<>>)

\* C9: after a successful generate, tmpDir is empty, the scratch directory the
\* call created is gone, the catalog tree is gone exactly if this call
\* downloaded it, and a tree the caller supplied is still there.
C9_Cleanup ==
  /\ call.op = "generate" /\ call.result = "ok" =>
       /\ tmpDir = <<>>
       /\ call.created # <<>> => call.created \notin fsDirs
       /\ call.source \notin fsDirs <=> call.downloaded
  /\ truthy(ctor.libsodiumLocalSource) => ctor.libsodiumLocalSource \in fsDirs

\* C10: on a generator constructed without a local catalog, sourceIsSet stays
\* false and no generate call starts with libsodiumLocalSource naming a tree
\* that is gone: every generate call downloads.
C10_SessionStateReset ==
  ~truthy(ctor.libsodiumLocalSource) =>
    /\ sourceIsSet = FALSE
    /\ call.op = "generate" => ~call.stale

====
